---- MODULE Spec2Model ----
(***************************************************************************)
(* Model of griffin: the duration parser and configuration loader of       *)
(* src/src/config.rs and the start-up and main loop of src/src/app.rs.     *)
(*                                                                         *)
(* A string is a sequence of characters.  An ASCII character is the        *)
(* one-character string itself; a non-ASCII character is written by its    *)
(* code point: "U+0663" is ARABIC-INDIC DIGIT THREE (general category Nd), *)
(* "U+017F" is LATIN SMALL LETTER LONG S (lowercase, simple case fold s).  *)
(* A u32 is kept at its width as two 16-bit limbs [hi, lo].                *)
(***************************************************************************)
EXTENDS Integers, Sequences, FiniteSets, TLC

VARIABLES
    input,      \* the scalar handed to interval_from_str
    result,     \* what interval_from_str produced for it
    doc,        \* the YAML document run() reads
    loaded,     \* the result of Config::new_from_file in run()
    jobs,       \* the jobs of the clokwerk Scheduler built by run()
    fired,      \* per remote, how often its health check job ran
    now,        \* milliseconds since the main loop started
    shutdown,   \* an external shutdown signal has been sent to the process
    pc          \* the position of run()

vars == <<input, result, doc, loaded, jobs, fired, now, shutdown, pc>>

---------------------------------------------------------------------------
(* Bounds of the model *)

MaxRemotes == 2

MaxNow == 5010

---------------------------------------------------------------------------
(* Characters *)

Digits10 == <<"0", "1", "2", "3", "4", "5", "6", "7", "8", "9">>

AsciiDigits == {Digits10[i] : i \in 1..10}

DigitVal(c) == (CHOOSE i \in 1..10 : Digits10[i] = c) - 1

\* The class \d of the regex crate on a &str: Unicode is on by default, so
\* \d is \p{Nd}, the ASCII digits and every other decimal digit.
IsRegexDigit(c) == c \in AsciiDigits \cup {"U+0663"}

AsciiLower(c) ==
    CASE c = "H" -> "h"
      [] c = "M" -> "m"
      [] c = "I" -> "i"
      [] c = "N" -> "n"
      [] c = "S" -> "s"
      [] c = "X" -> "x"
      [] OTHER -> c

\* Simple case folding, as RegexBuilder::case_insensitive(true) applies it
\* with Unicode on: the long s folds to s.
SimpleFold(c) == IF c = "U+017F" THEN "s" ELSE AsciiLower(c)

\* char-wise str::to_lowercase: the long s is a lowercase letter already.
to_lowercase(s) == [i \in 1..Len(s) |-> AsciiLower(s[i])]

---------------------------------------------------------------------------
(* u32 *)

Limb == 65536

ZeroU32 == [hi |-> 0, lo |-> 0]

U32Of(n) == [hi |-> n \div Limb, lo |-> n % Limb]

\* str::parse::<u32>: ASCII digits only, checked multiply and add.
RECURSIVE from_str_radix(_, _, _)
from_str_radix(src, i, acc) ==
    IF i > Len(src) THEN [ok |-> TRUE, val |-> acc]
    ELSE IF src[i] \notin AsciiDigits THEN [ok |-> FALSE, val |-> ZeroU32]
    ELSE LET lo == acc.lo * 10 + DigitVal(src[i])
             hi == acc.hi * 10 + lo \div Limb
         IN  IF hi >= Limb THEN [ok |-> FALSE, val |-> ZeroU32]
             ELSE from_str_radix(src, i + 1, [hi |-> hi, lo |-> lo % Limb])

parse_u32(src) ==
    IF Len(src) = 0 THEN [ok |-> FALSE, val |-> ZeroU32]
    ELSE from_str_radix(src, 1, ZeroU32)

---------------------------------------------------------------------------
(* TimeUnit, Interval *)

NoUnit == "none"

TimeUnit == {"Hours", "Minutes", "Seconds"}

TimeUnit_from_str(s) ==
    LET l == to_lowercase(s)
    IN  CASE l = <<"s">> -> [ok |-> TRUE, unit |-> "Seconds"]
          [] l = <<"m", "i", "n">> -> [ok |-> TRUE, unit |-> "Minutes"]
          [] l = <<"h">> -> [ok |-> TRUE, unit |-> "Hours"]
          [] OTHER -> [ok |-> FALSE, unit |-> NoUnit]

Interval_new(value, unit) == [value |-> value, unit |-> unit]

\* Interval::default with the unit taken wrongly.
Interval_default_Minutes == [value |-> U32Of(30), unit |-> "Minutes"]

Interval_default == [value |-> U32Of(30), unit |-> "Seconds"]

NoInterval == [value |-> ZeroU32, unit |-> NoUnit]

---------------------------------------------------------------------------
(* RE and interval_from_str *)

RECURSIVE DigitPrefixLen(_, _)
DigitPrefixLen(s, i) ==
    IF i <= Len(s) /\ IsRegexDigit(s[i]) THEN DigitPrefixLen(s, i + 1) ELSE i - 1

\* RE.captures for ^(\d+)(h|min|s)$, case insensitive.  No unit letter is a
\* digit, so group 1 is the longest run of digits at the start.
RE_captures(s) ==
    LET k == DigitPrefixLen(s, 1)
        rest == SubSeq(s, k + 1, Len(s))
        folded == [i \in 1..Len(rest) |-> SimpleFold(rest[i])]
    IN  IF k >= 1 /\ folded \in {<<"h">>, <<"m", "i", "n">>, <<"s">>}
        THEN [matched |-> TRUE, g1 |-> SubSeq(s, 1, k), g2 |-> rest]
        ELSE [matched |-> FALSE, g1 |-> <<>>, g2 |-> <<>>]

Ok(iv) == [tag |-> "Ok", interval |-> iv, err |-> "none"]

Err(e) == [tag |-> "Err", interval |-> NoInterval, err |-> e]

Panic == [tag |-> "Panic", interval |-> NoInterval, err |-> "none"]

NoResult == [tag |-> "None", interval |-> NoInterval, err |-> "none"]

\* A YAML scalar: a string, or a value String::deserialize refuses.
Str(chars) == [kind |-> "str", chars |-> chars]

NotAString == [kind |-> "other", chars |-> <<>>]

interval_from_str(scalar) ==
    IF scalar.kind # "str" THEN Err("not a string")
    ELSE LET cap == RE_captures(scalar.chars)
         IN  IF ~cap.matched THEN Err("is invalid duration")
             ELSE LET val == parse_u32(cap.g1)
                  IN  IF ~val.ok THEN Panic
                      ELSE IF val.val = ZeroU32
                           THEN Err("duration must be 0 or greater")
                      ELSE LET tu == TimeUnit_from_str(cap.g2)
                           IN  IF ~tu.ok THEN Err("invalid duration")
                               ELSE Ok(Interval_new(val.val, tu.unit))

---------------------------------------------------------------------------
(* Config::new *)

\* The health key of a remote of the document: absent, or a mapping that
\* may give an interval.
NoHealth == [present |-> FALSE, hasInterval |-> FALSE, interval |-> NotAString]

HealthDefault == [present |-> TRUE, hasInterval |-> FALSE, interval |-> NotAString]

HealthWith(scalar) == [present |-> TRUE, hasInterval |-> TRUE, interval |-> scalar]

\* Option<HealthCheckConfig>
None == [some |-> FALSE, interval |-> NoInterval]

Some(iv) == [some |-> TRUE, interval |-> iv]

\* HealthCheckConfig: interval is #[serde(default)] and deserialized with
\* interval_from_str when the key is there.
HealthCheckConfig_deserialize(h) ==
    IF h.hasInterval THEN interval_from_str(h.interval) ELSE Ok(Interval_default)

\* Remote: the keys of the mapping are visited first (health among them),
\* a missing url is reported when the mapping ends.
Remote_deserialize(r) ==
    LET h == IF r.health.present THEN HealthCheckConfig_deserialize(r.health)
             ELSE Ok(NoInterval)
    IN  IF h.tag # "Ok" THEN [tag |-> h.tag, remote |-> [health |-> None]]
        ELSE IF ~r.hasUrl THEN [tag |-> "Err", remote |-> [health |-> None]]
        ELSE [tag |-> "Ok",
              remote |-> [health |-> IF r.health.present THEN Some(h.interval)
                                     ELSE None]]

ConfigOk(rs) == [tag |-> "Ok", remotes |-> rs]

ConfigErr == [tag |-> "Err", remotes |-> <<>>]

ConfigPanic == [tag |-> "Panic", remotes |-> <<>>]

ConfigNone == [tag |-> "None", remotes |-> <<>>]

\* Vec<Remote>: the elements in order, the first failure ends the load.
RECURSIVE Remotes_deserialize(_, _, _)
Remotes_deserialize(rs, i, acc) ==
    IF i > Len(rs) THEN ConfigOk(acc)
    ELSE LET r == Remote_deserialize(rs[i])
         IN  IF r.tag = "Err" THEN ConfigErr
             ELSE IF r.tag = "Panic" THEN ConfigPanic
             ELSE Remotes_deserialize(rs, i + 1, Append(acc, r.remote))

\* Config::new refusing a document without any remote.
Config_new_RejectsEmpty(d) ==
    IF ~d.hasRemotes \/ d.remotes = <<>> THEN ConfigErr
    ELSE Remotes_deserialize(d.remotes, 1, <<>>)

Config_new(d) ==
    IF ~d.hasRemotes THEN ConfigErr
    ELSE Remotes_deserialize(d.remotes, 1, <<>>)

Config_new_from_file(d) ==
    IF ~d.readable THEN ConfigErr ELSE Config_new(d)

---------------------------------------------------------------------------
(* run *)

TickMs == 10

\* From<Interval> for clokwerk::Interval: the variant of the unit, holding
\* the value.
Interval_from(iv) ==
    CASE iv.unit = "Hours" -> [variant |-> "Hours", n |-> iv.value]
      [] iv.unit = "Minutes" -> [variant |-> "Minutes", n |-> iv.value]
      [] iv.unit = "Seconds" -> [variant |-> "Seconds", n |-> iv.value]

\* The length of a clokwerk::Interval in milliseconds.
PeriodMs(ci) ==
    (ci.n.hi * Limb + ci.n.lo)
        * (CASE ci.variant = "Hours" -> 3600000
             [] ci.variant = "Minutes" -> 60000
             [] ci.variant = "Seconds" -> 1000)

\* The body of `for remote in &config.remotes` is commented out: the loop
\* leaves the scheduler as it is.
RegisterJobs(remotes, js) == js

\* Scheduler::run_pending: every job that is due runs once and is scheduled
\* one period after now.
Due(j, t) == j.next_run <= t

run_pending_jobs(js, t) ==
    [k \in 1..Len(js) |->
        IF Due(js[k], t) THEN [js[k] EXCEPT !.next_run = t + PeriodMs(js[k].interval)]
        ELSE js[k]]

run_pending_fired(js, t, f) ==
    [i \in DOMAIN f |->
        f[i] + Cardinality({k \in 1..Len(js) : js[k].check = i /\ Due(js[k], t)})]

\* The documents run() is started on.
DocIntervals ==
    { Str(<<"1", "s">>), Str(<<"5", "s">>), Str(<<"1", "h">>),
      Str(<<"0", "s">>), Str(<<"5", "x">>),
      Str(<<"U+0663", "5", "s">>),
      Str(<<"4", "2", "9", "4", "9", "6", "7", "2", "9", "6", "s">>) }

DocHealths == {NoHealth, HealthDefault} \cup {HealthWith(x) : x \in DocIntervals}

DocRemotes == [hasUrl : BOOLEAN, health : DocHealths]

RemoteLists == UNION {[1..n -> DocRemotes] : n \in 0..MaxRemotes}

NoDoc == [readable |-> FALSE, hasRemotes |-> FALSE, remotes |-> <<>>]

Docs ==
    {NoDoc, [readable |-> TRUE, hasRemotes |-> FALSE, remotes |-> <<>>]}
        \cup {[readable |-> TRUE, hasRemotes |-> TRUE, remotes |-> rs] : rs \in RemoteLists}

Init ==
    /\ input = NotAString
    /\ result = NoResult
    /\ doc \in Docs
    /\ loaded = ConfigNone
    /\ jobs = <<>>
    /\ fired = [i \in 1..MaxRemotes |-> 0]
    /\ now = 0
    /\ shutdown = FALSE
    /\ pc = "load"

\* let config = Config::new_from_file(config_path).unwrap();
Load ==
    /\ pc = "load"
    /\ loaded' = Config_new_from_file(doc)
    /\ pc' = IF loaded'.tag = "Ok" THEN "register" ELSE "panicked"
    /\ UNCHANGED <<input, result, doc, jobs, fired, now, shutdown>>

\* for remote in &config.remotes { }
Register ==
    /\ pc = "register"
    /\ jobs' = RegisterJobs(loaded.remotes, jobs)
    /\ pc' = "run_pending"
    /\ UNCHANGED <<input, result, doc, loaded, fired, now, shutdown>>

\* scheduler.run_pending();
RunPending ==
    /\ pc = "run_pending"
    /\ jobs' = run_pending_jobs(jobs, now)
    /\ fired' = run_pending_fired(jobs, now, fired)
    /\ pc' = "sleep"
    /\ UNCHANGED <<input, result, doc, loaded, now, shutdown>>

\* thread::sleep(Duration::from_millis(10)); a shutdown signal may be sent
\* to the process meanwhile.  The loop has no exit.
Sleep ==
    /\ pc = "sleep"
    /\ now < MaxNow
    /\ now' = now + TickMs
    /\ \E sig \in BOOLEAN : shutdown' = (shutdown \/ sig)
    /\ pc' = "run_pending"
    /\ UNCHANGED <<input, result, doc, loaded, jobs, fired>>

Next == Load \/ Register \/ RunPending \/ Sleep

Spec == Init /\ [][Next]_vars

---------------------------------------------------------------------------
(* interval_from_str on its own *)

U32MaxDigits == <<"4", "2", "9", "4", "9", "6", "7", "2", "9", "5">>

U32OverDigits == <<"4", "2", "9", "4", "9", "6", "7", "2", "9", "6">>

Prefixes == {<<>>, <<" ">>, <<"x">>}

DigitRuns ==
    { <<>>, <<"0">>, <<"0", "0">>, <<"5">>, <<"0", "7">>, <<"3", "0">>,
      <<"6", "5", "5", "3", "6">>, U32MaxDigits, U32OverDigits,
      <<"U+0663">>, <<"U+0663", "5">> }

Separators == {<<>>, <<" ">>}

Units ==
    { <<>>, <<"h">>, <<"H">>, <<"m", "i", "n">>, <<"M", "i", "N">>,
      <<"s">>, <<"S">>, <<"m", "s">>, <<"M", "S">>, <<"m">>, <<"x">>,
      <<"U+017F">> }

Suffixes == {<<>>, <<" ">>, <<"s">>}

Inputs ==
    {NotAString}
        \cup {Str(p \o d \o m \o u \o x) :
                p \in Prefixes, d \in DigitRuns, m \in Separators,
                u \in Units, x \in Suffixes}

ParseInit ==
    /\ input \in Inputs
    /\ result = NoResult
    /\ doc = NoDoc
    /\ loaded = ConfigNone
    /\ jobs = <<>>
    /\ fired = [i \in 1..MaxRemotes |-> 0]
    /\ now = 0
    /\ shutdown = FALSE
    /\ pc = "parse"

Parse ==
    /\ pc = "parse"
    /\ result' = interval_from_str(input)
    /\ pc' = "parsed"
    /\ UNCHANGED <<input, doc, loaded, jobs, fired, now, shutdown>>

ParseNext == Parse

SpecParse == ParseInit /\ [][ParseNext]_vars

---------------------------------------------------------------------------
(* What the claims speak of: the duration format <digits><unit> *)

ClaimUnits == {<<"h">>, <<"m", "i", "n">>, <<"s">>, <<"m", "s">>}

RECURSIVE AsciiDigitRun(_, _)
AsciiDigitRun(s, i) ==
    IF i <= Len(s) /\ s[i] \in AsciiDigits THEN AsciiDigitRun(s, i + 1) ELSE i - 1

DigitsOf(s) == SubSeq(s, 1, AsciiDigitRun(s, 1))

SuffixOf(s) ==
    LET rest == SubSeq(s, AsciiDigitRun(s, 1) + 1, Len(s))
    IN  [i \in 1..Len(rest) |-> AsciiLower(rest[i])]

WellFormed(s) == Len(DigitsOf(s)) >= 1 /\ SuffixOf(s) \in ClaimUnits

ZeroMagnitude(s) == \A i \in 1..Len(DigitsOf(s)) : s[i] = "0"

UnitNamed(s) ==
    CASE SuffixOf(s) = <<"h">> -> "Hours"
      [] SuffixOf(s) = <<"m", "i", "n">> -> "Minutes"
      [] SuffixOf(s) = <<"s">> -> "Seconds"
      [] SuffixOf(s) = <<"m", "s">> -> "Milliseconds"

\* The decimal numeral of a u32, without leading zeros (empty for 0).
RECURSIVE Numeral(_)
Numeral(v) ==
    IF v = ZeroU32 THEN <<>>
    ELSE LET low == (v.hi % 10) * Limb + v.lo
         IN  Numeral([hi |-> v.hi \div 10, lo |-> low \div 10])
                 \o <<Digits10[(low % 10) + 1]>>

RECURSIVE StripZeros(_)
StripZeros(ds) ==
    IF Len(ds) > 0 /\ ds[1] = "0" THEN StripZeros(Tail(ds)) ELSE ds

InvalidDuration(scalar) ==
    /\ scalar.kind = "str"
    /\ ~WellFormed(scalar.chars) \/ ZeroMagnitude(scalar.chars)

---------------------------------------------------------------------------
(* Claims about interval_from_str, under SpecParse *)

Parsed == pc = "parsed" /\ input.kind = "str"

\* C1: every string <digits><unit> with digits > 0 and unit one of h, min,
\* s, ms in any letter case parses to the Interval of those digits and that
\* unit.
C1_ValidDurationParses ==
    (Parsed /\ WellFormed(input.chars) /\ ~ZeroMagnitude(input.chars))
        => /\ result.tag = "Ok"
           /\ result.interval.unit = UnitNamed(input.chars)
           /\ Numeral(result.interval.value) = StripZeros(DigitsOf(input.chars))

\* C2: every string of magnitude 0, or with an unrecognized unit, or with an
\* extra character before the digits, between digits and unit or after the
\* unit, is answered with an error.
C2_InvalidDurationRejected ==
    (Parsed /\ InvalidDuration(input)) => result.tag = "Err"

\* C10: interval_from_str returns Ok or Err for every input and never
\* panics.
C10_Total == pc = "parsed" => result.tag \in {"Ok", "Err"}

---------------------------------------------------------------------------
(* Claims about Config::new and run, under Spec *)

Loaded == pc # "load"

Running == pc \in {"run_pending", "sleep"}

InvalidDocument(d) ==
    \/ ~d.hasRemotes
    \/ \E i \in 1..Len(d.remotes) :
          /\ d.remotes[i].health.present
          /\ d.remotes[i].health.hasInterval
          /\ InvalidDuration(d.remotes[i].health.interval)

\* C3: an invalid document (no remotes list, or a remote whose interval is
\* of a bad format, of an unknown unit or of magnitude zero) makes Config::new
\* return an error and no Config.
C3_InvalidDocumentRejected ==
    (Loaded /\ doc.readable /\ InvalidDocument(doc))
        => loaded.tag = "Err" /\ loaded.remotes = <<>>

\* C4: a health check that is present without an interval is loaded with
\* the interval of 30 seconds.
C4_DefaultInterval ==
    (Loaded /\ loaded.tag = "Ok")
        => \A i \in 1..Len(doc.remotes) :
              (doc.remotes[i].health.present /\ ~doc.remotes[i].health.hasInterval)
                  => loaded.remotes[i].health
                         = Some([value |-> [hi |-> 0, lo |-> 30], unit |-> "Seconds"])

C4_Witness ==
    /\ Loaded
    /\ loaded.tag = "Ok"
    /\ \E i \in 1..Len(doc.remotes) :
          doc.remotes[i].health.present /\ ~doc.remotes[i].health.hasInterval

Checks == {i \in 1..Len(loaded.remotes) : loaded.remotes[i].health.some}

\* C5: once run() has started its loop, the scheduler holds exactly one job
\* for every health check of the configuration, of the period of the
\* check's interval, and no other job.
C5_OneJobPerCheck ==
    Running
        => /\ Len(jobs) = Cardinality(Checks)
           /\ \A i \in Checks :
                 Cardinality({k \in 1..Len(jobs) :
                     /\ jobs[k].check = i
                     /\ jobs[k].interval
                            = Interval_from(loaded.remotes[i].health.interval)}) = 1

\* C6: while the loop runs, every health check has run once per elapsed
\* period of its interval, give or take one tick: after run_pending at time
\* now a check of period p has run n times with n * p <= now < (n + 1) * p
\* + tick (a 1s check 5 times and a 5s check once after 5 seconds).
C6_FiresOncePerPeriod ==
    pc = "sleep"
        => \A i \in Checks :
              LET p == PeriodMs(Interval_from(loaded.remotes[i].health.interval))
              IN  /\ fired[i] * p <= now
                  /\ now < (fired[i] + 1) * p + TickMs

\* C7: once a shutdown signal has been sent, the loop stops: run_pending is
\* not called again.
C7_StopsOnShutdown ==
    [][shutdown => ~(pc = "run_pending" /\ pc' = "sleep")]_vars

EmptyRemotes == doc.readable /\ doc.hasRemotes /\ doc.remotes = <<>>

\* C8: a document with an empty list of remotes loads without error, and
\* run() reaches its loop, where no job is registered, nothing fires and
\* the loop does not fail.
C8_EmptyRemotesSteadyState ==
    (EmptyRemotes /\ Loaded)
        => /\ loaded = ConfigOk(<<>>)
           /\ pc \in {"register", "run_pending", "sleep"}
           /\ jobs = <<>>
           /\ \A i \in DOMAIN fired : fired[i] = 0

C8_Witness == EmptyRemotes /\ pc = "sleep" /\ now >= 2 * TickMs

====
